---- MODULE Spec2Model ----
(***************************************************************************)
(* Model of ep/base.py (class Base): the instantaneous eigensystem of a    *)
(* 2-level non-Hermitian Hamiltonian along a loop, the removal of          *)
(* eigensolver label swaps, the gain/energy classification, the initial    *)
(* state, the ODE iteration and the projection on the left eigenbasis.     *)
(*                                                                         *)
(* Numbers.  A complex number is a pair <<re, im>> of integers (a Gaussian *)
(* integer).  Eigenvalues are counted in units of 0.05, so the threshold   *)
(* epsilon = 1e-1 of get_c_eigensystem is 2 units.  Eigenvector entries    *)
(* lie on the real or the imaginary axis, so that np.angle is a whole      *)
(* number of quarter turns and np.exp(1j*phase) is a power of i.  A vector *)
(* that the code divides by a norm sqrt(s) is kept as the pair             *)
(* [v |-> numerator, n2 |-> s].                                            *)
(***************************************************************************)
EXTENDS Integers, Sequences, FiniteSets, TLC

\* number of time samples, len(self.t)
tN == 3

\* step of the time grid, self.dt (time units)
dt == 2

\* epsilon = 1e-1 of get_c_eigensystem, in eigenvalue units of 0.05
epsilon == 2

Samples == 0 .. (tN - 1)

Idx == {0, 1}

-----------------------------------------------------------------------------
(* complex arithmetic *)

Re(z) == z[1]

Im(z) == z[2]

Zero == <<0, 0>>

One == <<1, 0>>

CI == <<0, 1>>

CAdd(a, b) == <<a[1] + b[1], a[2] + b[2]>>

CSub(a, b) == <<a[1] - b[1], a[2] - b[2]>>

CNeg(a) == <<0 - a[1], 0 - a[2]>>

CMul(a, b) == <<a[1] * b[1] - a[2] * b[2], a[1] * b[2] + a[2] * b[1]>>

Conj(a) == <<a[1], 0 - a[2]>>

\* |a|^2
Abs2(a) == a[1] * a[1] + a[2] * a[2]

\* np.angle in quarter turns, for a number on an axis: 0, pi/2, pi, -pi/2;
\* np.angle(0) is 0
Angle(a) ==
    CASE a[2] = 0 /\ a[1] >= 0 -> 0
      [] a[1] = 0 /\ a[2] > 0 -> 1
      [] a[2] = 0 /\ a[1] < 0 -> 2
      [] a[1] = 0 /\ a[2] < 0 -> -1

\* np.exp(1j*phase) for a phase of q quarter turns
ExpI(q) ==
    CASE q % 4 = 0 -> <<1, 0>>
      [] q % 4 = 1 -> <<0, 1>>
      [] q % 4 = 2 -> <<-1, 0>>
      [] q % 4 = 3 -> <<0, -1>>

\* sum over the two components c of x[c]*y[c] (no conjugation)
Dot(x, y) == CAdd(CMul(x[0], y[0]), CMul(x[1], y[1]))

\* column i of a 2x2 array m[c][i]
Col(m, i) == [c \in Idx |-> m[c][i]]

\* m[:, ::-1]
Reversed(m) == [c \in Idx |-> [i \in Idx |-> m[c][1 - i]]]

ZeroVec == [c \in Idx |-> Zero]

ZeroMat == [c \in Idx |-> [i \in Idx |-> Zero]]

-----------------------------------------------------------------------------
VARIABLES
    H,                    \* the Hamiltonian provider: kind, eigen-data, flow
    order,                \* the eigensolver's labelling at each sample
    init_state,           \* self.init_state
    init_state_method,    \* self.init_state_method
    calc_adiabatic_state, \* self.calc_adiabatic_state
    eVals,                \* self.eVals[n][i]
    eVecs_r,              \* self.eVecs_r[n][c][i]
    eVecs_l,              \* self.eVecs_l[n][c][i]
    Psi,                  \* self.Psi[n]
    theta_adiabatic,      \* self.theta_adiabatic[n][i]
    Psi_adiabatic,        \* self.Psi_adiabatic[n][i]
    eVec0,                \* self.eVec0
    phi_a,                \* self.phi_a
    phi_b,                \* self.phi_b
    SE,                   \* the complex_ode object of the running solve_ODE
    n,                    \* loop index of "iterate SE"
    pc,                   \* position inside solve_ODE
    err,                  \* the exception that ended the run
    recalled,             \* solve_ODE was called again after a completed call
    H_ret,                \* what the last call of self.H returned
    written,              \* indices of Psi written in this run, in order
    checked,              \* advances that SE.successful() reported successful
    first                 \* results of the first completed run

config == <<init_state, init_state_method, calc_adiabatic_state>>

arrays == <<eVals, eVecs_r, eVecs_l>>

adiabatic == <<theta_adiabatic, Psi_adiabatic>>

outputs == <<Psi, eVec0, phi_a, phi_b>>

vars == <<H, order, init_state, init_state_method, calc_adiabatic_state,
          eVals, eVecs_r, eVecs_l, Psi, theta_adiabatic, Psi_adiabatic,
          eVec0, phi_a, phi_b, SE, n, pc, err, recalled, H_ret, written,
          checked, first>>

-----------------------------------------------------------------------------
(* The Hamiltonian provider and the eigen-decomposition primitive.         *)
(* H.E[n][b] and column b of H.R[n] are the eigenvalue and the right       *)
(* eigenvector of the true branch b (0 = A, 1 = B) of H(t_n); order[n] is  *)
(* the true branch that the eigensolver returns at index 0 for H(t_n).     *)

\* the left eigenvectors biorthogonal to the columns of r: the transpose of
\* the inverse of r, for a determinant of modulus 1
LeftOf(r) ==
    LET det == CSub(CMul(r[0][0], r[1][1]), CMul(r[0][1], r[1][0]))
        inv == [i \in Idx |-> [c \in Idx |->
                  CMul(Conj(det),
                       CASE i = 0 /\ c = 0 -> r[1][1]
                         [] i = 0 /\ c = 1 -> CNeg(r[0][1])
                         [] i = 1 /\ c = 0 -> CNeg(r[1][0])
                         [] i = 1 /\ c = 1 -> r[0][0])]]
    IN  [c \in Idx |-> [i \in Idx |-> inv[i][c]]]

\* c_eig(self.H(t_k), left=True): eigenvalues, left and right eigenvectors,
\* biorthogonally normalised, in the solver's order
c_eig(k) ==
    LET b(i) == IF order[k] = 0 THEN i ELSE 1 - i
        l == LeftOf(H.R[k])
    IN  [vals |-> [i \in Idx |-> H.E[k][b(i)]],
         l |-> [c \in Idx |-> [i \in Idx |-> l[c][b(i)]]],
         r |-> [c \in Idx |-> [i \in Idx |-> H.R[k][c][b(i)]]]]

\* c_trapz(y, dx): trapezoidal rule over the whole grid
c_trapz(y, dx) ==
    LET RECURSIVE S(_)
        S(k) == IF k >= tN - 1 THEN Zero
                ELSE CAdd(CAdd(y[k], y[k + 1]), S(k + 1))
        s == S(0)
    IN  <<(dx * s[1]) \div 2, (dx * s[2]) \div 2>>

\* c_cumtrapz(y, dx): running trapezoidal integral, one value per sample
c_cumtrapz(y, dx) ==
    LET RECURSIVE S(_)
        S(k) == IF k = 0 THEN Zero
                ELSE CAdd(CAdd(y[k - 1], y[k]), S(k - 1))
    IN  [k \in Samples |-> <<(dx * S(k)[1]) \div 2, (dx * S(k)[2]) \div 2>>]

-----------------------------------------------------------------------------
(* get_c_eigensystem *)

\* what self.H(tn) returns: the stub of Base ends in "pass"
HReturn == IF H.kind = "Base" THEN "None" ELSE "matrix"

\* a get_c_eigensystem that keeps the arrays of an earlier run instead of
\* filling fresh ones
StaleSystem ==
    IF H_ret = "matrix"
    THEN [eVals |-> eVals, eVecs_l |-> eVecs_l, eVecs_r |-> eVecs_r]
    ELSE [eVals |-> [k \in Samples |-> c_eig(k).vals],
          eVecs_l |-> [k \in Samples |-> c_eig(k).l],
          eVecs_r |-> [k \in Samples |-> c_eig(k).r]]

\* the temporary arrays after the loop over self.t
RawSystem ==
    [eVals |-> [k \in Samples |-> c_eig(k).vals],
     eVecs_l |-> [k \in Samples |-> c_eig(k).l],
     eVecs_r |-> [k \in Samples |-> c_eig(k).r]]

\* mask.nonzero()[0]: the indices k with abs(diff[k]) > epsilon
Mask(vals) ==
    {k \in 0 .. (tN - 2) :
        Abs2(CSub(vals[k + 1][0], vals[k][0])) > epsilon * epsilon}

\* a phase correction that leaves out the range [0, k]
PhaseCorrectTailOnly(vecs, k) ==
    LET phase_0 == [c \in Idx |-> Angle(vecs[k][c][0]) - Angle(vecs[k + 1][c][1])]
    IN  [m \in Samples |-> [c \in Idx |-> [i \in Idx |->
            IF i = 1 /\ m >= k + 1 THEN CMul(vecs[m][c][1], ExpI(phase_0[c]))
            ELSE vecs[m][c][i]]]]

\* the four phases and the four in-place multiplications of branch 1,
\* for one of the two eigenvector arrays
PhaseCorrect(vecs, k) ==
    LET phase_0 == [c \in Idx |-> Angle(vecs[k][c][0]) - Angle(vecs[k + 1][c][1])]
        phase_1 == [c \in Idx |-> Angle(vecs[k + 1][c][0]) - Angle(vecs[k][c][1])]
    IN  [m \in Samples |-> [c \in Idx |-> [i \in Idx |->
            IF i = 0 THEN vecs[m][c][0]
            ELSE IF m >= k + 1 THEN CMul(vecs[m][c][1], ExpI(phase_0[c]))
            ELSE CMul(vecs[m][c][1], ExpI(phase_1[c]))]]]

\* e[...,0], e[...,1] = concatenate(e[:k+1,...,0], e[k+1:,...,1]),
\*                      concatenate(e[:k+1,...,1], e[k+1:,...,0])   for eVals
SwapTailVals(e, k) ==
    [m \in Samples |-> [i \in Idx |->
        IF m >= k + 1 THEN e[m][1 - i] ELSE e[m][i]]]

\* the same assignment for an eigenvector array
SwapTailVecs(e, k) ==
    [m \in Samples |-> [c \in Idx |-> [i \in Idx |->
        IF m >= k + 1 THEN e[m][c][1 - i] ELSE e[m][c][i]]]]

\* the body of the loop "for k in mask.nonzero()[0]"
SwapEvent(sys, k) ==
    [eVals |-> SwapTailVals(sys.eVals, k),
     eVecs_r |-> SwapTailVecs(PhaseCorrect(sys.eVecs_r, k), k),
     eVecs_l |-> SwapTailVecs(PhaseCorrect(sys.eVecs_l, k), k)]

RECURSIVE AssemblePiecewise(_, _, _)
\* the loop over the marked indices from k on, in ascending order
AssemblePiecewise(sys, mask, k) ==
    IF k > tN - 2 THEN sys
    ELSE AssemblePiecewise(IF k \in mask THEN SwapEvent(sys, k) ELSE sys,
                           mask, k + 1)

\* the arrays that get_c_eigensystem stores on the instance
CorrectedSystem ==
    AssemblePiecewise(RawSystem, Mask(RawSystem.eVals), 0)

-----------------------------------------------------------------------------
(* the classifiers *)

\* np.imag(intE0) < np.imag(intE1) of _find_gain_state
GainSwapNeeded(vals) ==
    LET intE0 == c_trapz([k \in Samples |-> vals[k][0]], dt)
        intE1 == c_trapz([k \in Samples |-> vals[k][1]], dt)
    IN  Im(intE0) < Im(intE1)

\* self.eVals[0, 0].real > self.eVals[0, 1].real of _find_lower_energy_state
EnergySwapNeeded(vals) == Re(vals[0][0]) > Re(vals[0][1])

\* an element-by-element copy without a temporary: column 0 takes column 1
\* and column 1 then reads column 0 back
OverlappedCopy(sys) ==
    [eVals |-> [k \in Samples |-> [i \in Idx |-> sys.eVals[k][1]]],
     eVecs_r |-> [k \in Samples |-> [c \in Idx |-> [i \in Idx |-> sys.eVecs_r[k][c][1]]]],
     eVecs_l |-> [k \in Samples |-> [c \in Idx |-> [i \in Idx |-> sys.eVecs_l[k][c][1]]]]]

\* e[..., :] = e[..., ::-1] on the three arrays: numpy copies the overlapping
\* right-hand side before it assigns, so the two columns are exchanged
ReversedSystem(sys) ==
    [eVals |-> [k \in Samples |-> [i \in Idx |-> sys.eVals[k][1 - i]]],
     eVecs_r |-> [k \in Samples |-> Reversed(sys.eVecs_r[k])],
     eVecs_l |-> [k \in Samples |-> Reversed(sys.eVecs_l[k])]]

\* the arrays after _find_gain_state
GainSorted(sys) ==
    IF GainSwapNeeded(sys.eVals) THEN ReversedSystem(sys) ELSE sys

\* the arrays after _find_lower_energy_state
EnergySorted(sys) ==
    IF EnergySwapNeeded(sys.eVals) THEN ReversedSystem(sys) ELSE sys

-----------------------------------------------------------------------------
(* the initial state and the integrator *)

ValidInitStates == {"a", "b", "c", "d"}

\* conj(v).dot(v): the square of the norm that modes 'c' and 'd' divide by
NormSq(v) == Abs2(v[0]) + Abs2(v[1])

\* an if/elif chain that ends in an else branch for the gain state
InitStateVectorWithDefault(mode, r0) ==
    IF mode = "b" THEN [set |-> TRUE, v |-> Col(r0, 1), n2 |-> 1]
    ELSE [set |-> TRUE, v |-> Col(r0, 0), n2 |-> 1]

\* the local eVec0_r of _get_init_state at its return statement; v / sqrt(n2),
\* and n2 = 0 stands for the nan vector of a division by zero; no branch of
\* the if/elif chain binds it for an unrecognised mode
InitStateVector(mode, r0) ==
    LET r_0 == Col(r0, 0)
        r_1 == Col(r0, 1)
        sum == [c \in Idx |-> CAdd(r_0[c], r_1[c])]
        dif == [c \in Idx |-> CAdd(r_0[c], CMul(ExpI(2), r_1[c]))]
    IN  CASE mode = "a" -> [set |-> TRUE, v |-> r_0, n2 |-> 1]
          [] mode = "b" -> [set |-> TRUE, v |-> r_1, n2 |-> 1]
          [] mode = "c" -> [set |-> TRUE, v |-> sum, n2 |-> NormSq(sum)]
          [] mode = "d" -> [set |-> TRUE, v |-> dif, n2 |-> NormSq(dif)]
          [] OTHER -> [set |-> FALSE, v |-> ZeroVec, n2 |-> 1]

\* the state after SE.integrate(SE.t + self.dt): the flow of the linear
\* equation dPsi/dt = -i H(t) Psi over one step of the grid
Advance(y) ==
    [set |-> y.set,
     v |-> [c \in Idx |-> CAdd(CMul(H.U[c][0], y.v[0]), CMul(H.U[c][1], y.v[1]))],
     n2 |-> y.n2]

\* an integrate that overshoots the requested output time by one more step
IntegrateOvershoot(se) ==
    LET success == se.steps + 1 # H.failAt
    IN  [made |-> TRUE,
         y |-> IF success THEN Advance(Advance(se.y)) ELSE se.y,
         steps |-> se.steps + 1,
         ok |-> success]

\* SE.integrate(SE.t + self.dt) on the integrator se
Integrate(se) ==
    LET success == se.steps + 1 # H.failAt
    IN  [made |-> TRUE,
         y |-> IF success THEN Advance(se.y) ELSE se.y,
         steps |-> se.steps + 1,
         ok |-> success]

\* SE.set_initial_value(self.eVec0, t=0.0)
InitialValue(y0) == [made |-> TRUE, y |-> y0, steps |-> 0, ok |-> TRUE]

\* np.einsum('ijk,ij -> ik', self.eVecs_l, self.Psi)[:, i]
Projection(i) ==
    [set |-> TRUE,
     at |-> [k \in Samples |->
              [z |-> Dot(Col(eVecs_l[k], i), Psi[k].v), n2 |-> Psi[k].n2]]]

\* theta_adiabatic[:, i] = -c_cumtrapz(E, dx=self.dt)
AdiabaticPhase ==
    [k \in Samples |-> [i \in Idx |->
        CNeg(c_cumtrapz([m \in Samples |-> eVals[m][i]], dt)[k])]]

-----------------------------------------------------------------------------
(* initial states *)

NoState == [set |-> FALSE, v |-> ZeroVec, n2 |-> 1]

ZeroState == [set |-> TRUE, v |-> ZeroVec, n2 |-> 1]

NoSE == [made |-> FALSE, y |-> NoState, steps |-> 0, ok |-> TRUE]

NoPhi == [set |-> FALSE, at |-> [k \in Samples |-> [z |-> Zero, n2 |-> 1]]]

ZeroVals == [k \in Samples |-> [i \in Idx |-> Zero]]

ZeroVecs == [k \in Samples |-> ZeroMat]

Results ==
    [set |-> TRUE, eVals |-> eVals, eVecs_r |-> eVecs_r, eVecs_l |-> eVecs_l,
     Psi |-> Psi, phi_a |-> phi_a, phi_b |-> phi_b]

NoResults ==
    [set |-> FALSE, eVals |-> ZeroVals, eVecs_r |-> ZeroVecs,
     eVecs_l |-> ZeroVecs, Psi |-> [k \in Samples |-> ZeroState],
     phi_a |-> NoPhi, phi_b |-> NoPhi]

\* right eigenvectors (1,0), (0,1)
IdMat == [c \in Idx |-> [i \in Idx |-> IF c = i THEN One ELSE Zero]]

\* right eigenvectors (1,0), (i,1)
ShearMat == [c \in Idx |-> [i \in Idx |->
                IF c = i THEN One ELSE IF c = 0 THEN CI ELSE Zero]]

\* right eigenvectors (i,0), (1,-1)
TurnedMat == [c \in Idx |-> [i \in Idx |->
                CASE c = 0 /\ i = 0 -> CI
                  [] c = 0 /\ i = 1 -> One
                  [] c = 1 /\ i = 0 -> Zero
                  [] c = 1 /\ i = 1 -> CNeg(One)]]

RMats == {IdMat, ShearMat, TurnedMat}

\* flow over one step: Psi -> (i Psi_0 + Psi_1, Psi_1)
FlowMat == [c \in Idx |-> [i \in Idx |->
                IF c = 0 /\ i = 0 THEN CI ELSE IF c = 1 /\ i = 0 THEN Zero ELSE One]]

\* the real parts of branch A along the loop: it starts at 0 and moves by
\* 0 or 1 unit (less than epsilon) between consecutive samples
DriftPaths ==
    {a \in [Samples -> Samples] :
        /\ a[0] = 0
        /\ \A k \in 0 .. (tN - 2) : a[k + 1] - a[k] \in {0, 1}}

\* branch B runs gap units above branch A; the imaginary parts are constant
Branches(a, gap, imA, imB) ==
    [k \in Samples |-> [b \in Idx |->
        IF b = 0 THEN <<a[k], imA>> ELSE <<a[k] + gap, imB>>]]

Still == [k \in Samples |-> 0]

\* the providers with branch A on a path of paths, branch B gap units above
\* it, imaginary parts im, eigenvector bases mats, and an integrator that
\* fails at advance number f (0: at none)
Loops(paths, gaps, ims, mats, fails) ==
    {[kind |-> "Loop", E |-> Branches(a, g, im[1], im[2]), R |-> r,
      U |-> FlowMat, failAt |-> f] :
        a \in paths, g \in gaps, im \in ims, r \in mats, f \in fails}

\* an instance of Base itself: H and get_cycle_parameters are the stubs
BaseProvider ==
    [kind |-> "Base", E |-> Branches(Still, 3, 1, 0),
     R |-> [k \in Samples |-> IdMat], U |-> FlowMat, failAt |-> 0]

InitInstance ==
    /\ eVals = ZeroVals
    /\ eVecs_r = ZeroVecs
    /\ eVecs_l = ZeroVecs
    /\ Psi = [k \in Samples |-> ZeroState]
    /\ theta_adiabatic = ZeroVals
    /\ Psi_adiabatic = [k \in Samples |-> [i \in Idx |-> [exp |-> FALSE, arg |-> Zero]]]
    /\ eVec0 = NoState
    /\ phi_a = NoPhi
    /\ phi_b = NoPhi
    /\ SE = NoSE
    /\ n = 0
    /\ pc = "idle"
    /\ err = "none"
    /\ recalled = FALSE
    /\ H_ret = "unset"
    /\ written = <<>>
    /\ checked = {}
    /\ first = NoResults

\* eigenvalue trajectories of every shape, fixed eigenvectors
InitEigenvalues ==
    /\ H \in Loops(DriftPaths, {2, 3}, {<<0, 0>>, <<0, 1>>, <<1, 0>>},
                   {[k \in Samples |-> IdMat]}, {0})
    /\ order \in [Samples -> Idx]
    /\ init_state = "a"
    /\ init_state_method \in {"gain", "energy"}
    /\ calc_adiabatic_state = FALSE

\* eigenvector trajectories of every shape, well separated eigenvalues
InitEigenvectors ==
    /\ H \in Loops({Still}, {3}, {<<1, 0>>}, [Samples -> RMats], {0})
    /\ order \in [Samples -> Idx]
    /\ init_state = "a"
    /\ init_state_method = "gain"
    /\ calc_adiabatic_state = FALSE

\* every configuration, also the unrecognised values "e" and "other", and
\* an integrator failure at every advance
InitConfigurations ==
    /\ \/ /\ H \in Loops({Still}, {3}, {<<1, 0>>}, {[k \in Samples |-> IdMat]},
                         0 .. tN)
          /\ order \in {[k \in Samples |-> 0], [k \in Samples |-> 1]}
       \/ /\ H = BaseProvider
          /\ order = [k \in Samples |-> 0]
    /\ init_state \in {"a", "b", "c", "d", "e"}
    /\ init_state_method \in {"gain", "energy", "other"}
    /\ calc_adiabatic_state \in BOOLEAN

Init ==
    /\ InitInstance
    /\ \/ InitEigenvalues
       \/ InitEigenvectors
       \/ InitConfigurations

-----------------------------------------------------------------------------
(* solve_ODE, step by step *)

\* a call of solve_ODE may begin: the instance is fresh, or the last call
\* has returned or raised
Callable == pc \in {"idle", "done", "error"}

\* entry of solve_ODE and get_c_eigensystem with a provider that overrides H
get_c_eigensystem ==
    /\ Callable
    /\ H.kind = "Loop"
    /\ recalled' = first.set
    /\ H_ret' = HReturn
    /\ eVals' = CorrectedSystem.eVals
    /\ eVecs_l' = CorrectedSystem.eVecs_l
    /\ eVecs_r' = CorrectedSystem.eVecs_r
    /\ SE' = NoSE
    /\ n' = 0
    /\ written' = <<>>
    /\ checked' = {}
    /\ err' = "none"
    /\ pc' = "classify"
    /\ UNCHANGED <<H, order, config, adiabatic, outputs, first>>

\* entry of solve_ODE and get_c_eigensystem on the stubs of Base: self.H(tn)
\* returns None without complaint and the eigensolver is handed None
get_c_eigensystem_stub ==
    /\ Callable
    /\ H.kind = "Base"
    /\ recalled' = first.set
    /\ H_ret' = HReturn
    /\ SE' = NoSE
    /\ n' = 0
    /\ written' = <<>>
    /\ checked' = {}
    /\ err' = "c_eig"
    /\ pc' = "error"
    /\ UNCHANGED <<H, order, config, arrays, adiabatic, outputs, first>>

_find_gain_state ==
    /\ pc = "classify"
    /\ init_state_method = "gain"
    /\ LET sys == GainSorted([eVals |-> eVals, eVecs_r |-> eVecs_r, eVecs_l |-> eVecs_l])
       IN  /\ eVals' = sys.eVals
           /\ eVecs_r' = sys.eVecs_r
           /\ eVecs_l' = sys.eVecs_l
    /\ pc' = "init"
    /\ UNCHANGED <<H, order, config, adiabatic, outputs, SE, n, err, recalled,
                   H_ret, written, checked, first>>

_find_lower_energy_state ==
    /\ pc = "classify"
    /\ init_state_method = "energy"
    /\ LET sys == EnergySorted([eVals |-> eVals, eVecs_r |-> eVecs_r, eVecs_l |-> eVecs_l])
       IN  /\ eVals' = sys.eVals
           /\ eVecs_r' = sys.eVecs_r
           /\ eVecs_l' = sys.eVecs_l
    /\ pc' = "init"
    /\ UNCHANGED <<H, order, config, adiabatic, outputs, SE, n, err, recalled,
                   H_ret, written, checked, first>>

\* neither branch of the if/elif on init_state_method is taken
no_classification ==
    /\ pc = "classify"
    /\ init_state_method \notin {"gain", "energy"}
    /\ pc' = "init"
    /\ UNCHANGED <<H, order, config, arrays, adiabatic, outputs, SE, n, err,
                   recalled, H_ret, written, checked, first>>

\* self.eVec0 = self._get_init_state() for a recognised mode
_get_init_state ==
    /\ pc = "init"
    /\ InitStateVector(init_state, eVecs_r[0]).set
    /\ eVec0' = InitStateVector(init_state, eVecs_r[0])
    /\ pc' = "create"
    /\ UNCHANGED <<H, order, config, arrays, adiabatic, Psi, phi_a, phi_b, SE,
                   n, err, recalled, H_ret, written, checked, first>>

\* no branch of _get_init_state binds eVec0_r: "return eVec0_r" raises
\* UnboundLocalError and solve_ODE ends there
_get_init_state_unbound ==
    /\ pc = "init"
    /\ ~InitStateVector(init_state, eVecs_r[0]).set
    /\ err' = "UnboundLocalError"
    /\ pc' = "error"
    /\ UNCHANGED <<H, order, config, arrays, adiabatic, outputs, SE, n, recalled,
                   H_ret, written, checked, first>>

\* complex_ode(...), set_integrator, set_initial_value
create_ode ==
    /\ pc = "create"
    /\ SE' = InitialValue(eVec0)
    /\ n' = 0
    /\ pc' = "iterate"
    /\ UNCHANGED <<H, order, config, arrays, adiabatic, outputs, err, recalled,
                   H_ret, written, checked, first>>

\* one pass of the loop with SE.successful(): record SE.y, then advance by
\* dt; the integrator cannot meet its tolerance at advance number H.failAt
\* (the partial state of a failed advance is never read)
iterate ==
    /\ pc = "iterate"
    /\ SE.ok
    /\ Psi' = [Psi EXCEPT ![n] = SE.y]
    /\ written' = Append(written, n)
    /\ checked' = checked \cup {SE.steps}
    /\ SE' = Integrate(SE)
    /\ n' = n + 1
    /\ pc' = IF n + 1 = tN THEN "adiabatic" ELSE "iterate"
    /\ UNCHANGED <<H, order, config, arrays, adiabatic, eVec0, phi_a, phi_b,
                   err, recalled, H_ret, first>>

\* one pass of the loop without SE.successful()
raise_convergence_error ==
    /\ pc = "iterate"
    /\ ~SE.ok
    /\ err' = "ODE convergence error!"
    /\ pc' = "error"
    /\ UNCHANGED <<H, order, config, arrays, adiabatic, outputs, SE, n, recalled,
                   H_ret, written, checked, first>>

\* if self.calc_adiabatic_state: self._get_adiabatic_state();
\* Psi_adiabatic holds exp(arg) with arg = 1j*theta
_get_adiabatic_state ==
    /\ pc = "adiabatic"
    /\ calc_adiabatic_state
    /\ theta_adiabatic' = AdiabaticPhase
    /\ Psi_adiabatic' = [k \in Samples |-> [i \in Idx |->
                            [exp |-> TRUE, arg |-> CMul(CI, AdiabaticPhase[k][i])]]]
    /\ pc' = "project"
    /\ UNCHANGED <<H, order, config, arrays, outputs, SE, n, err, recalled, H_ret,
                   written, checked, first>>

\* the projection on the left eigenvectors and the return of solve_ODE
project ==
    /\ \/ pc = "project"
       \/ pc = "adiabatic" /\ ~calc_adiabatic_state
    /\ phi_a' = Projection(0)
    /\ phi_b' = Projection(1)
    /\ first' = IF first.set THEN first
                ELSE [Results EXCEPT !.phi_a = Projection(0), !.phi_b = Projection(1)]
    /\ pc' = "done"
    /\ UNCHANGED <<H, order, config, arrays, adiabatic, Psi, eVec0, SE, n, err,
                   recalled, H_ret, written, checked>>

Next ==
    \/ get_c_eigensystem
    \/ get_c_eigensystem_stub
    \/ _find_gain_state
    \/ _find_lower_energy_state
    \/ no_classification
    \/ _get_init_state
    \/ _get_init_state_unbound
    \/ create_ode
    \/ iterate
    \/ raise_convergence_error
    \/ _get_adiabatic_state
    \/ project

Spec == Init /\ [][Next]_vars

-----------------------------------------------------------------------------
(* properties *)

\* the two true branches never cross: one stays strictly above the other,
\* in the real or in the imaginary part, at every sample
NeverCross ==
    \/ \A k \in Samples : Re(H.E[k][0]) < Re(H.E[k][1])
    \/ \A k \in Samples : Re(H.E[k][0]) > Re(H.E[k][1])
    \/ \A k \in Samples : Im(H.E[k][0]) < Im(H.E[k][1])
    \/ \A k \in Samples : Im(H.E[k][0]) > Im(H.E[k][1])

\* each true branch moves by less than epsilon between consecutive samples
SmallMoves ==
    \A k \in 0 .. (tN - 2) : \A b \in Idx :
        Abs2(CSub(H.E[k + 1][b], H.E[k][b])) < epsilon * epsilon

\* get_c_eigensystem has just stored its arrays
AfterCorrection == pc = "classify"

\* C1: after get_c_eigensystem, when the true branches never cross and each
\* moves by less than epsilon per sample, branch 0 of eVals moves by less
\* than epsilon between any two consecutive samples, whatever the labelling
\* of the eigensolver
C1_Continuity ==
    (AfterCorrection /\ NeverCross /\ SmallMoves) =>
        \A k \in 0 .. (tN - 2) :
            Abs2(CSub(eVals[k + 1][0], eVals[k][0])) < epsilon * epsilon


\* left_i . right_j = delta_ij at every sample of the arrays l, r
Biorthogonal(l, r) ==
    \A k \in Samples : \A i \in Idx : \A j \in Idx :
        Dot(Col(l[k], i), Col(r[k], j)) = IF i = j THEN One ELSE Zero

\* the eigen-decomposition primitive returns biorthogonal vectors
PrimitiveBiorthogonal == Biorthogonal(RawSystem.eVecs_l, RawSystem.eVecs_r)

\* the instance holds an eigensystem stored by get_c_eigensystem
Stored == H_ret = "matrix"

\* C2: the stored eigensystem is biorthogonal at every sample, also at the
\* samples that were multiplied by the phase factors of swap events
C2_Biorthogonality ==
    (Stored /\ PrimitiveBiorthogonal) => Biorthogonal(eVecs_l, eVecs_r)

Marked == Mask(RawSystem.eVals)

\* C10: after all swap events, at every marked index k the phase of every
\* component of either branch is the same at k and k+1, in eVecs_r and in
\* eVecs_l
C10_PhaseContinuity ==
    AfterCorrection =>
        \A k \in Marked : \A i \in Idx : \A c \in Idx :
            /\ Angle(eVecs_r[k + 1][c][i]) = Angle(eVecs_r[k][c][i])
            /\ Angle(eVecs_l[k + 1][c][i]) = Angle(eVecs_l[k][c][i])

\* C10 as amended: the same, for the components that are nonzero at k and
\* at k+1 (a zero entry has no phase to align)
C10_PhaseContinuityNonzero ==
    AfterCorrection =>
        \A k \in Marked : \A i \in Idx : \A c \in Idx :
            /\ (eVecs_r[k + 1][c][i] # Zero /\ eVecs_r[k][c][i] # Zero)
                  => Angle(eVecs_r[k + 1][c][i]) = Angle(eVecs_r[k][c][i])
            /\ (eVecs_l[k + 1][c][i] # Zero /\ eVecs_l[k][c][i] # Zero)
                  => Angle(eVecs_l[k + 1][c][i]) = Angle(eVecs_l[k][c][i])


\* the marked indices 0 and 1 are adjacent swap events, a phase factor has
\* changed an entry that the swaps alone would have left as the solver gave
\* it, and aligned nonzero entries lie off the positive real axis
C10_Witness ==
    /\ AfterCorrection
    /\ {0, 1} \subseteq Marked
    /\ \E m \in Samples : \E c \in Idx : \E i \in Idx :
          eVecs_r[m][c][i] #
             RawSystem.eVecs_r[m][c][(i + Cardinality({k \in Marked : k < m})) % 2]
    /\ \E k \in Marked : \E c \in Idx : \E i \in Idx :
          /\ eVecs_r[k][c][i] # Zero
          /\ eVecs_r[k + 1][c][i] # Zero
          /\ Angle(eVecs_r[k][c][i]) # 0

\* C3: once the integrator has reported an unsuccessful advance, solve_ODE
\* is either still inside the loop, about to raise, or has raised: it does
\* not reach the adiabatic computation, the projection or its return
C3_FailureAborts ==
    (SE.made /\ ~SE.ok) => pc \in {"iterate", "error"}

\* the input of the classifier: the arrays get_c_eigensystem stored
ClassifierInput == CorrectedSystem

\* sys is inp with branch 0 and branch 1 exchanged at every sample, in the
\* eigenvalues and in both eigenvector arrays
Exchanged(sys, inp) ==
    \A k \in Samples : \A i \in Idx :
        /\ sys.eVals[k][i] = inp.eVals[k][1 - i]
        /\ \A c \in Idx :
              /\ sys.eVecs_r[k][c][i] = inp.eVecs_r[k][c][1 - i]
              /\ sys.eVecs_l[k][c][i] = inp.eVecs_l[k][c][1 - i]

Stored3 == [eVals |-> eVals, eVecs_r |-> eVecs_r, eVecs_l |-> eVecs_l]

\* _find_gain_state has run in this call of solve_ODE
AfterGainState ==
    /\ init_state_method = "gain"
    /\ pc = "init"

\* C4: after _find_gain_state the integral of branch 0 has the larger (or
\* an equal) imaginary part, and the arrays are the input, either unchanged
\* or with the two branches exchanged at every sample in all three arrays
C4_GainState ==
    AfterGainState =>
        /\ Im(c_trapz([k \in Samples |-> eVals[k][0]], dt))
              >= Im(c_trapz([k \in Samples |-> eVals[k][1]], dt))
        /\ \/ Stored3 = [eVals |-> ClassifierInput.eVals,
                         eVecs_r |-> ClassifierInput.eVecs_r,
                         eVecs_l |-> ClassifierInput.eVecs_l]
           \/ Exchanged(Stored3, ClassifierInput)

\* the classifier has exchanged two branches that differ in eigenvalue and
\* in eigenvectors at a sample
C4_Witness ==
    /\ AfterGainState
    /\ Exchanged(Stored3, ClassifierInput)
    /\ \E k \in Samples :
          /\ eVals[k][0] # eVals[k][1]
          /\ Col(eVecs_r[k], 0) # Col(eVecs_r[k], 1)
          /\ Col(eVecs_l[k], 0) # Col(eVecs_l[k], 1)
    /\ Im(c_trapz([k \in Samples |-> eVals[k][0]], dt))
          > Im(c_trapz([k \in Samples |-> eVals[k][1]], dt))

\* C5: with an init_state other than 'a', 'b', 'c', 'd' the run never gets
\* past _get_init_state: the integrator is not created, no entry of Psi is
\* written, and the step after the classifier is the raise
C5_UnknownInitState ==
    init_state \notin ValidInitStates =>
        /\ ~SE.made
        /\ written = <<>>
        /\ pc \in {"idle", "classify", "init", "error"}
        /\ pc = "init" => ENABLED _get_init_state_unbound
        /\ (pc = "error" /\ Stored) => err = "UnboundLocalError"

\* a run with an unrecognised init_state has been stopped by the error of
\* _get_init_state, after its eigensystem was stored
C5_Witness ==
    /\ init_state \notin ValidInitStates
    /\ pc = "error"
    /\ err = "UnboundLocalError"
    /\ Stored
    /\ eVals # ZeroVals

\* C6: with an init_state_method other than 'gain' and 'energy' no
\* numerical work is done: H is never evaluated for the eigen-decomposition
\* and no integrator is created or advanced
C6_UnknownMethod ==
    init_state_method \notin {"gain", "energy"} =>
        /\ H_ret = "unset"
        /\ ~SE.made
        /\ written = <<>>

\* C7: on an instance with the stubs of Base a call of H does not return
\* None, and the eigen-decomposition is not started on an absent Hamiltonian
C7_MissingProvider ==
    H.kind = "Base" => (H_ret # "None" /\ err # "c_eig")

\* C8: after every completed call of solve_ODE the eigensystem, Psi, phi_a
\* and phi_b are those of the first completed call
C8_Repeatable ==
    (pc = "done" /\ first.set) => Results = first

\* a second call has completed on an instance whose first call applied a
\* swap event of the corrector and the exchange of the classifier
C8_Witness ==
    /\ pc = "done"
    /\ recalled
    /\ first.set
    /\ Marked # {}
    /\ init_state_method = "gain"
    /\ GainSwapNeeded(CorrectedSystem.eVals)
    /\ Psi[tN - 1] # Psi[0]

RECURSIVE AfterAdvances(_, _)
\* the integrator state m advances of length dt after the state y
AfterAdvances(y, m) == IF m = 0 THEN y ELSE Advance(AfterAdvances(y, m - 1))

\* advance number m met its tolerance; number 0 is the initial value, which
\* no advance produced
Succeeded(m) == m = 0 \/ m # H.failAt

\* the loop "iterate SE" of this call of solve_ODE has begun or is over
Iterating ==
    /\ SE.made
    /\ pc \in {"iterate", "adiabatic", "project", "done", "error"}

\* C11: in a call of solve_ODE the entries of Psi are written once each in
\* ascending order; Psi[0] is the state returned by _get_init_state and
\* Psi[m] is the integrator state after exactly m advances of length dt;
\* Psi[m] is written only after SE.successful() was consulted for advance m
\* and that advance had succeeded; when every advance succeeds, all tN
\* entries are written by the end of the loop
C11_Trajectory ==
    Iterating =>
        /\ written = [m \in 1 .. Len(written) |-> m - 1]
        /\ Len(written) = n
        /\ \A m \in 0 .. (Len(written) - 1) :
              /\ Psi[m] = AfterAdvances(eVec0, m)
              /\ m \in checked
              /\ Succeeded(m)
        /\ (H.failAt = 0 /\ pc \in {"adiabatic", "project", "done"})
              => Len(written) = tN

\* a call in which every advance succeeded has returned with tN entries
\* that differ from one another, so that each is told from its neighbours
C11_Witness ==
    /\ pc = "done"
    /\ H.failAt = 0
    /\ Len(written) = tN
    /\ SE.steps = tN
    /\ checked = Samples
    /\ eVec0.v # ZeroVec
    /\ \A k \in Samples : \A m \in Samples : k # m => Psi[k] # Psi[m]

====
